---------------------------- MODULE Spec2Model ----------------------------
(***************************************************************************)
(* Model of src/small_v8_engine.cpp: the tagged Value, the Environment     *)
(* chain, the tree-walking evaluator over the AST the Parser builds, and   *)
(* the setTimeout task queue with the event loop of main().                *)
(*                                                                         *)
(* Numbers (double) are modelled by integers; a String is a sequence of    *)
(* one-character strings; a shared_ptr<Environment> is an index into the   *)
(* heap of frames (0 is nullptr); a shared_ptr<ASTNode> is the node.       *)
(***************************************************************************)
EXTENDS Integers, Sequences, FiniteSets, TLC

VARIABLES
    frames,     \* heap of Environment objects; frames[1] is globalEnv
    taskQueue,  \* vector<Task> taskQueue
    cap,        \* taskQueue.capacity()
    out,        \* what was written to cout
    clock,      \* the reading getCurrentTime() returns
    pc,         \* position of main()
    code,       \* string code: the script typed since the last run (0: none)
    stmts,      \* auto stmts = parser.parse()
    si,         \* index of the next top-level statement
    now,        \* long long now of the current sweep
    it,         \* iterator of the sweep (index into taskQueue)
    ranTask,    \* bool ranTask
    runs,       \* number of "run" lines handled so far
    fired,      \* history: how often each Task's callback was started
    nextId,     \* history: identity of the next Task
    runEnq,     \* history: Tasks enqueued by the synchronous phase of this run
    inLoop,     \* history: this run entered the event loop
    last,       \* record of the last Environment operation (EnvSpec)
    src,        \* Parser::src
    pos         \* Parser::pos

vars == <<frames, taskQueue, cap, out, clock, pc, code, stmts, si, now, it,
          ranTask, runs, fired, nextId, runEnq, inLoop, last, src, pos>>

---------------------------------------------------------------------------
(* Bounds *)
MaxClock  == 3      \* the clock advances by itself up to here
MaxRuns   == 2      \* "run" lines per behaviour
MaxTasks  == 4      \* Tasks created per behaviour
MaxFuel   == 4      \* nested calls / loop iterations evaluated per statement
MaxFrames == 2      \* Environment objects in EnvSpec
LLBits    == 4      \* width the 64-bit long long is scaled to

LLMax == 2^(LLBits - 1) - 1
LLMin == -(2^(LLBits - 1))

\* outcomes of undefined behaviour: execution goes on with what the machine
\* does (two's complement wrap, stale pointer), or the process is killed
UBOutcomes == {"continue", "abort"}

---------------------------------------------------------------------------
(* struct Value *)
NoNode == [k |-> "nil"]

MkValue ==
    [type |-> "V_NULL", numVal |-> 0, strVal |-> <<>>, boolVal |-> FALSE,
     listVal |-> <<>>, params |-> <<>>, body |-> NoNode, closure |-> 0,
     nativeFn |-> "none"]

NumV(n)  == [MkValue EXCEPT !.type = "V_NUM", !.numVal = n]
StrV(s)  == [MkValue EXCEPT !.type = "V_STR", !.strVal = s]
BoolV(b) == [MkValue EXCEPT !.type = "V_BOOL", !.boolVal = b]
ListV(l) == [MkValue EXCEPT !.type = "V_LIST", !.listVal = l]
\* a Function that captures the global frame whatever frame declares it
FuncVGlobal(p, b, c) ==
    [MkValue EXCEPT !.type = "V_FUNC", !.params = p, !.body = b, !.closure = 1]

FuncV(p, b, c) ==
    [MkValue EXCEPT !.type = "V_FUNC", !.params = p, !.body = b, !.closure = c]
NativeV(f) == [MkValue EXCEPT !.type = "V_NATIVE", !.nativeFn = f]

DigitChar(d) == <<"0", "1", "2", "3", "4", "5", "6", "7", "8", "9">>[d + 1]

RECURSIVE Digits(_)
Digits(n) == IF n < 10 THEN <<DigitChar(n)>>
             ELSE Digits(n \div 10) \o <<DigitChar(n % 10)>>

\* std::to_string(double): "%f", six fractional digits
to_string(n) ==
    (IF n < 0 THEN <<"-">> \o Digits(-n) ELSE Digits(n))
        \o <<".", "0", "0", "0", "0", "0", "0">>

\* s.substr(0, s.find_last_not_of('0') + 1)
RECURSIVE TrimZeros(_)
TrimZeros(s) == IF s = <<>> THEN <<>>
                ELSE IF s[Len(s)] = "0" THEN TrimZeros(SubSeq(s, 1, Len(s) - 1))
                ELSE s

toString(v) ==
    CASE v.type = "V_NUM"  -> TrimZeros(to_string(v.numVal))
      [] v.type = "V_STR"  -> v.strVal
      [] v.type = "V_BOOL" -> IF v.boolVal THEN <<"t", "r", "u", "e">>
                              ELSE <<"f", "a", "l", "s", "e">>
      [] v.type = "V_NULL" -> <<"n", "u", "l", "l">>
      [] v.type = "V_LIST" -> <<"[", "A", "r", "r", "a", "y", "]">>
      [] v.type = "V_OBJ"  -> <<"[", "O", "b", "j", "e", "c", "t", "]">>
      [] OTHER -> <<"[", "F", "u", "n", "c", "t", "i", "o", "n", "]">>

---------------------------------------------------------------------------
(* class Environment: fr is the heap of frames, e the frame the method is  *)
(* called on                                                               *)
NoVars == [n \in {} |-> MkValue]

\* site is history: the frame a call was made from (0: not made by a call)
Environment(p) == [vars |-> NoVars, parent |-> p, site |-> 0]

\* a define that writes through to the frame that already binds the name
defineOuter(fr, e, name, val) ==
    LET RECURSIVE Holder(_)
        Holder(g) == IF g = 0 THEN e
                     ELSE IF name \in DOMAIN fr[g].vars THEN g
                     ELSE Holder(fr[g].parent)
    IN [fr EXCEPT ![Holder(e)].vars = (name :> val) @@ @]

define(fr, e, name, val) ==
    [fr EXCEPT ![e].vars = (name :> val) @@ @]

\* a lookup that yields null for a name no frame defines
RECURSIVE lookupDefault(_, _, _)
lookupDefault(fr, e, name) ==
    IF name \in DOMAIN fr[e].vars
    THEN [found |-> TRUE, val |-> fr[e].vars[name]]
    ELSE IF fr[e].parent # 0
    THEN lookupDefault(fr, fr[e].parent, name)
    ELSE [found |-> TRUE, val |-> MkValue]

RECURSIVE lookup(_, _, _)
lookup(fr, e, name) ==
    IF name \in DOMAIN fr[e].vars
    THEN [found |-> TRUE, val |-> fr[e].vars[name]]
    ELSE IF fr[e].parent # 0
    THEN lookup(fr, fr[e].parent, name)
    ELSE [found |-> FALSE, val |-> MkValue]

\* an assign that binds the name in the frame it is called on
RECURSIVE assignHere(_, _, _, _)
assignHere(fr, e, name, val) ==
    LET RECURSIVE Defined(_)
        Defined(g) == g # 0 /\ (name \in DOMAIN fr[g].vars
                                \/ Defined(fr[g].parent))
    IN IF Defined(e)
       THEN [ok |-> TRUE, fr |-> [fr EXCEPT ![e].vars = (name :> val) @@ @]]
       ELSE [ok |-> FALSE, fr |-> fr]

RECURSIVE assign(_, _, _, _)
assign(fr, e, name, val) ==
    IF name \in DOMAIN fr[e].vars
    THEN [ok |-> TRUE, fr |-> [fr EXCEPT ![e].vars[name] = val]]
    ELSE IF fr[e].parent # 0
    THEN assign(fr, fr[e].parent, name, val)
    ELSE [ok |-> FALSE, fr |-> fr]

---------------------------------------------------------------------------
(* The evaluator threads the mutable program state st through eval():      *)
(*   frames, taskQueue, cap, out   the objects eval() can change           *)
(*   clock     the reading getCurrentTime() returns during this step       *)
(*   ub        the outcome undefined behaviour takes during this step      *)
(*   realloc   taskQueue reallocated its buffer during this step           *)
(*   nextId, enq   history: Task identities, Tasks enqueued in this step   *)
(* and returns [st, val, err]: err is the what() of the exception thrown,  *)
(* "none" when eval() returns normally.                                    *)
NoErr == "none"
UndefinedVariable == "Undefined variable"
NotAFunction == "Not a function"
Diverge == "diverge"    \* evaluation did not return within MaxFuel
Abort == "abort"        \* the process was killed

R(st, val, err) == [st |-> st, val |-> val, err |-> err]

WrapLL(x) == ((x - LLMin) % (2^LLBits)) + LLMin

\* vector::push_back: a full buffer is reallocated to twice its size, which
\* invalidates every iterator into the vector
push_back(st, t) ==
    [st EXCEPT !.taskQueue = Append(@, t),
               !.cap = IF Len(st.taskQueue) = st.cap
                       THEN (IF st.cap = 0 THEN 1 ELSE 2 * st.cap) ELSE @,
               !.realloc = @ \/ (Len(st.taskQueue) = st.cap)]

\* printFn->nativeFn
printFn(st, args) ==
    LET RECURSIVE Line(_)
        Line(i) == IF i > Len(args) THEN <<>>
                   ELSE toString(args[i]) \o <<" ">> \o Line(i + 1)
    IN R([st EXCEPT !.out = Append(@, [kind |-> "print", text |-> Line(1)])],
         MkValue, NoErr)

\* timeoutFn->nativeFn.  (long long) of a double outside the range of long
\* long and the overflow of getCurrentTime() + delay are undefined
timeoutFn(st, args) ==
    IF Len(args) < 2 \/ args[1].type # "V_FUNC"
    THEN R(st, MkValue, NoErr)
    ELSE LET d       == args[2].numVal
             inRange == d \in LLMin..LLMax
             delay   == IF inRange THEN d ELSE LLMin
             sum     == st.clock + delay
             defined == inRange /\ sum \in LLMin..LLMax
             t == [executeTime |-> WrapLL(sum), callback |-> args[1],
                   id |-> st.nextId, due |-> st.clock + d]
         IN IF ~defined /\ st.ub = "abort"
            THEN R(st, MkValue, Abort)
            ELSE R([push_back(st, t) EXCEPT !.nextId = @ + 1,
                                            !.enq = @ \cup {st.nextId}],
                   MkValue, NoErr)

\* BinaryOpNode::eval after both operands are evaluated ('/' is not
\* modelled: the scripts do not divide)
BinaryOp(op, l, r) ==
    CASE op = "+" ->
            IF l.type = "V_STR" \/ r.type = "V_STR"
            THEN StrV(toString(l) \o toString(r))
            ELSE NumV(l.numVal + r.numVal)
      [] op = "-" -> NumV(l.numVal - r.numVal)
      [] op = "*" -> NumV(l.numVal * r.numVal)
      [] op = ">" -> BoolV(l.numVal > r.numVal)
      [] op = "<" -> BoolV(l.numVal < r.numVal)
      [] op = "==" ->
            IF l.type = "V_NUM" THEN BoolV(l.numVal = r.numVal)
            ELSE IF l.type = "V_STR" THEN BoolV(l.strVal = r.strVal)
            ELSE BoolV(FALSE)
      [] OTHER -> MkValue

\* IfNode::eval: bool truthy
Truthy(c) ==
    IF c.type = "V_BOOL" THEN c.boolVal
    ELSE IF c.type = "V_NUM" THEN c.numVal # 0
    ELSE FALSE

\* WhileNode::eval: the condition of its break
WhileBreaks(c) ==
    (c.type = "V_BOOL" /\ ~c.boolVal) \/ (c.type = "V_NUM" /\ c.numVal = 0)

\* dynamic scoping: the new frame is chained to the frame of the call
CallScopeDynamic(func, env) == [Environment(env) EXCEPT !.site = env]

\* CallNode::eval: auto scope = make_shared<Environment>(func->closure)
CallScope(func, env) == [Environment(func.closure) EXCEPT !.site = env]

\* CallNode::eval: the loop that binds the parameters in the new scope
RECURSIVE BindParams(_, _, _, _, _)
BindParams(fr, scope, params, argVals, i) ==
    IF i > Len(params) THEN fr
    ELSE BindParams(IF i <= Len(argVals)
                    THEN define(fr, scope, params[i], argVals[i]) ELSE fr,
                    scope, params, argVals, i + 1)

RECURSIVE eval(_, _, _, _), evalList(_, _, _, _, _, _),
          evalBlock(_, _, _, _, _, _), evalWhile(_, _, _, _)

\* ASTNode::eval(env) of every node kind
eval(node, env, st, fuel) ==
    CASE node.k = "NumberNode" -> R(st, NumV(node.val), NoErr)
      [] node.k = "StringNode" -> R(st, StrV(node.sval), NoErr)
      [] node.k = "IdentifierNode" ->
            LET r == lookup(st.frames, env, node.name)
            IN IF r.found THEN R(st, r.val, NoErr)
               ELSE R(st, MkValue, UndefinedVariable)
      [] node.k = "ArrayNode" ->
            LET a == evalList(node.elements, 1, env, st, <<>>, fuel)
            IN IF a.err # NoErr THEN R(a.st, MkValue, a.err)
               ELSE R(a.st, ListV(a.val), NoErr)
      [] node.k = "BinaryOpNode" ->
            LET l == eval(node.left, env, st, fuel)
            IN IF l.err # NoErr THEN l
               ELSE LET r == eval(node.right, env, l.st, fuel)
                    IN IF r.err # NoErr THEN r
                       ELSE R(r.st, BinaryOp(node.op, l.val, r.val), NoErr)
      [] node.k = "BlockNode" ->
            evalBlock(node.statements, 1, env, st, MkValue, fuel)
      [] node.k = "VarDeclNode" ->
            LET v == IF node.init.k = "nil" THEN R(st, MkValue, NoErr)
                     ELSE eval(node.init, env, st, fuel)
            IN IF v.err # NoErr THEN v
               ELSE R([v.st EXCEPT !.frames = define(@, env, node.name, v.val)],
                      v.val, NoErr)
      [] node.k = "IfNode" ->
            LET c == eval(node.cond, env, st, fuel)
            IN IF c.err # NoErr THEN c
               ELSE IF Truthy(c.val)
               THEN eval(node.thenBranch, env, c.st, fuel)
               ELSE IF node.elseBranch.k # "nil"
               THEN eval(node.elseBranch, env, c.st, fuel)
               ELSE R(c.st, MkValue, NoErr)
      [] node.k = "WhileNode" -> evalWhile(node, env, st, fuel)
      [] node.k = "FunctionDeclNode" ->
            LET func == FuncV(node.params, node.body, env)
            IN R([st EXCEPT !.frames = define(@, env, node.name, func)],
                 func, NoErr)
      [] node.k = "CallNode" ->
            LET f == lookup(st.frames, env, node.callee)
            IN IF ~f.found THEN R(st, MkValue, UndefinedVariable)
               ELSE
               LET a == evalList(node.args, 1, env, st, <<>>, fuel)
                   func == f.val
               IN IF a.err # NoErr THEN R(a.st, MkValue, a.err)
                  ELSE IF func.type = "V_NATIVE"
                  THEN (IF func.nativeFn = "print" THEN printFn(a.st, a.val)
                        ELSE timeoutFn(a.st, a.val))
                  ELSE IF func.type = "V_FUNC"
                  THEN IF fuel = 0 THEN R(a.st, MkValue, Diverge)
                       ELSE
                       LET scope == Len(a.st.frames) + 1
                           fr == Append(a.st.frames, CallScope(func, env))
                       IN eval(func.body, scope,
                               [a.st EXCEPT !.frames =
                                   BindParams(fr, scope, func.params, a.val, 1)],
                               fuel - 1)
                  ELSE R(a.st, MkValue, NotAFunction)

\* the loops over elements (ArrayNode) and over args (CallNode): val is the
\* list of the values evaluated so far
evalList(nodes, i, env, st, acc, fuel) ==
    IF i > Len(nodes) THEN R(st, acc, NoErr)
    ELSE LET r == eval(nodes[i], env, st, fuel)
         IN IF r.err # NoErr THEN r
            ELSE evalList(nodes, i + 1, env, r.st, Append(acc, r.val), fuel)

\* a Block that evaluates its statements in a new frame, child of env
evalBlockScoped(statements, i, env, st, lastVal, fuel) ==
    LET scope == Len(st.frames) + 1
        RECURSIVE Loop(_, _, _)
        Loop(j, s, lv) ==
            IF j > Len(statements) THEN R(s, lv, NoErr)
            ELSE LET r == eval(statements[j], scope, s, fuel)
                 IN IF r.err # NoErr THEN r ELSE Loop(j + 1, r.st, r.val)
    IN Loop(i, [st EXCEPT !.frames = Append(@, Environment(env))], lastVal)

\* BlockNode::eval
evalBlock(statements, i, env, st, lastVal, fuel) ==
    IF i > Len(statements) THEN R(st, lastVal, NoErr)
    ELSE LET r == eval(statements[i], env, st, fuel)
         IN IF r.err # NoErr THEN r
            ELSE evalBlock(statements, i + 1, env, r.st, r.val, fuel)

\* WhileNode::eval
evalWhile(node, env, st, fuel) ==
    LET c == eval(node.cond, env, st, fuel)
    IN IF c.err # NoErr THEN c
       ELSE IF WhileBreaks(c.val) THEN R(c.st, MkValue, NoErr)
       ELSE IF fuel = 0 THEN R(c.st, MkValue, Diverge)
       ELSE LET b == eval(node.body, env, c.st, fuel)
            IN IF b.err # NoErr THEN b
               ELSE evalWhile(node, env, b.st, fuel - 1)

---------------------------------------------------------------------------
(* The AST nodes the Parser builds *)
Num(v) == [k |-> "NumberNode", val |-> v]
\* (the string val of StringNode is the field sval: a field holds values
\* of one type)
Str(s) == [k |-> "StringNode", sval |-> s]
Id(n) == [k |-> "IdentifierNode", name |-> n]
Bin(o, l, r) == [k |-> "BinaryOpNode", op |-> o, left |-> l, right |-> r]
Block(ss) == [k |-> "BlockNode", statements |-> ss]
Var(n, i) == [k |-> "VarDeclNode", name |-> n, init |-> i]
If(c, t, e) == [k |-> "IfNode", cond |-> c, thenBranch |-> t, elseBranch |-> e]
While(c, b) == [k |-> "WhileNode", cond |-> c, body |-> b]
Func(n, ps, b) == [k |-> "FunctionDeclNode", name |-> n, params |-> ps, body |-> b]
Call(c, as) == [k |-> "CallNode", callee |-> c, args |-> as]
Array(es) == [k |-> "ArrayNode", elements |-> es]

\* a delay that is a valid long long but overflows when added to the clock
HugeDelay == LLMax

DeclF == Func("f", <<>>, Block(<<Call("print", <<Num(1)>>)>>))

(* The scripts a user types before "run", as Parser::parse returns them    *)
(* (an assignment ID = expr is parsed by parseComparison into the          *)
(* BinaryOpNode "="; a lone ';' yields a null statement).                  *)
\* function f(){ print(1) } setTimeout(f, 0); setTimeout(f, 1); print(2);
TwoTimers == <<DeclF, Call("setTimeout", <<Id("f"), Num(0)>>),
               Call("setTimeout", <<Id("f"), Num(1)>>),
               Call("print", <<Num(2)>>)>>
\* function f(){ print(1) } setTimeout(f, 0); nope;
SyncError == <<DeclF, Call("setTimeout", <<Id("f"), Num(0)>>), Id("nope")>>
\* function bad(){ nope } setTimeout(bad, 0);
BadTask == <<Func("bad", <<>>, Block(<<Id("nope")>>)),
             Call("setTimeout", <<Id("bad"), Num(0)>>)>>
\* function f(){ print(1) } function re(){ setTimeout(f, 0) } setTimeout(re, 0);
Rearm == <<DeclF,
           Func("re", <<>>, Block(<<Call("setTimeout", <<Id("f"), Num(0)>>)>>)),
           Call("setTimeout", <<Id("re"), Num(0)>>)>>
\* function f(){ print(1) } setTimeout(f, <HugeDelay>);
Overflow == <<DeclF, Call("setTimeout", <<Id("f"), Num(HugeDelay)>>)>>
\* var x = 10; function add(n){ x = x + n } add(5); print(x);
AddScript == <<Var("x", Num(10)),
               Func("add", <<"n">>,
                    Block(<<Bin("=", Id("x"), Bin("+", Id("x"), Id("n")))>>)),
               Call("add", <<Num(5)>>),
               Call("print", <<Id("x")>>)>>
\* var x = 1; function getx(){ x }
\* function caller(){ var x = 2; getx() } var r = caller();
ScopeScript == <<Var("x", Num(1)),
                 Func("getx", <<>>, Block(<<Id("x")>>)),
                 Func("caller", <<>>,
                      Block(<<Var("x", Num(2)), Call("getx", <<>>)>>)),
                 Var("r", Call("caller", <<>>))>>
\* ; y = 5;
Undeclared == <<NoNode, Bin("=", Id("y"), Num(5))>>

Script(n, ss) == [name |-> n, stmts |-> ss]

Scripts == <<Script("TwoTimers", TwoTimers), Script("SyncError", SyncError),
             Script("BadTask", BadTask), Script("Rearm", Rearm),
             Script("Overflow", Overflow), Script("AddScript", AddScript),
             Script("ScopeScript", ScopeScript),
             Script("Undeclared", Undeclared)>>

\* the script typed since the last run ("" when code is empty)
CodeName == IF code = 0 THEN "" ELSE Scripts[code].name

\* Parser parser(code); parser.parse()
parse(c) == IF c = 0 THEN <<>> ELSE Scripts[c].stmts

---------------------------------------------------------------------------
(* main() *)
GlobalEnv ==
    [Environment(0) EXCEPT
        !.vars = ("print" :> NativeV("print")) @@
                 ("setTimeout" :> NativeV("setTimeout"))]

NoLast == [op |-> "none", env |-> 0, name |-> "", val |-> MkValue,
           before |-> <<>>, ok |-> TRUE, err |-> NoErr]

Init ==
    /\ frames = <<GlobalEnv>>
    /\ taskQueue = <<>>
    /\ cap = 0
    /\ out = <<>>
    /\ clock = 1
    /\ pc = "input"
    /\ code = 0
    /\ stmts = <<>>
    /\ si = 1
    /\ now = 0
    /\ it = 1
    /\ ranTask = FALSE
    /\ runs = 0
    /\ fired = [i \in 1..MaxTasks |-> [count |-> 0, now |-> 0, due |-> 0]]
    /\ nextId = 1
    /\ runEnq = {}
    /\ inLoop = FALSE
    /\ last = NoLast
    /\ src = <<>>
    /\ pos = 0

St(ub) == [frames |-> frames, taskQueue |-> taskQueue, cap |-> cap,
           out |-> out, clock |-> clock, ub |-> ub, realloc |-> FALSE,
           nextId |-> nextId, enq |-> {}]

\* the number of setTimeout calls in a node
RECURSIVE Timeouts(_), TimeoutsIn(_)
Timeouts(node) ==
    CASE node.k = "ArrayNode" -> TimeoutsIn(node.elements)
      [] node.k = "BinaryOpNode" -> Timeouts(node.left) + Timeouts(node.right)
      [] node.k = "BlockNode" -> TimeoutsIn(node.statements)
      [] node.k = "VarDeclNode" -> Timeouts(node.init)
      [] node.k = "IfNode" -> Timeouts(node.cond) + Timeouts(node.thenBranch)
                              + Timeouts(node.elseBranch)
      [] node.k = "WhileNode" -> Timeouts(node.cond) + Timeouts(node.body)
      [] node.k = "FunctionDeclNode" -> Timeouts(node.body)
      [] node.k = "CallNode" ->
            (IF node.callee = "setTimeout" THEN 1 ELSE 0) + TimeoutsIn(node.args)
      [] OTHER -> 0
TimeoutsIn(nodes) ==
    IF nodes = <<>> THEN 0 ELSE Timeouts(Head(nodes)) + TimeoutsIn(Tail(nodes))

\* the bound of the model: a run starts only when the Tasks its statements
\* and the pending callbacks can create stay within MaxTasks
RECURSIVE PendingTimeouts(_)
PendingTimeouts(q) ==
    IF q = <<>> THEN 0
    ELSE Timeouts(Head(q).callback.body) + PendingTimeouts(Tail(q))

Bounded(ss) ==
    (nextId - 1) + TimeoutsIn(ss) + PendingTimeouts(taskQueue) <= MaxTasks

Commit(st) ==
    /\ frames' = st.frames
    /\ taskQueue' = st.taskQueue
    /\ cap' = st.cap
    /\ out' = st.out
    /\ nextId' = st.nextId

Cout(kind) == [kind |-> kind, text |-> <<>>]

\* where an exception, a kill or a hang takes main()
AfterErr(err) ==
    IF err = Abort THEN "crashed" ELSE IF err = Diverge THEN "hung" ELSE "catch"

\* system_clock advances
Tick ==
    /\ clock < MaxClock
    /\ pc \notin {"exited", "crashed", "hung"}
    /\ clock' = clock + 1
    /\ UNCHANGED <<frames, taskQueue, cap, out, pc, code, stmts, si, now, it,
                   ranTask, runs, fired, nextId, runEnq, inLoop,
                   last, src, pos>>

\* getline: a line other than "run" and "exit": code += line + "\n"
EnterCode(s) ==
    /\ pc = "input"
    /\ code = 0
    /\ runs < MaxRuns
    /\ code' = s
    /\ UNCHANGED <<frames, taskQueue, cap, out, clock, pc, stmts, si, now, it,
                   ranTask, runs, fired, nextId, runEnq, inLoop,
                   last, src, pos>>

\* getline: "run"
Run ==
    /\ pc = "input"
    /\ runs < MaxRuns
    /\ Bounded(parse(code))
    /\ stmts' = parse(code)
    /\ si' = 1
    /\ pc' = "sync"
    /\ runs' = runs + 1
    /\ runEnq' = {}
    /\ inLoop' = FALSE
    /\ UNCHANGED <<frames, taskQueue, cap, out, clock, code, now, it, ranTask,
                   fired, nextId, last, src, pos>>

\* getline: "exit"
Exit ==
    /\ pc = "input"
    /\ pc' = "exited"
    /\ UNCHANGED <<frames, taskQueue, cap, out, clock, code, stmts, si, now,
                   it, ranTask, runs, fired, nextId, runEnq, inLoop,
                   last, src, pos>>

\* one iteration of: for (auto &stmt : stmts) if (stmt) stmt->eval(globalEnv)
EvalStmt(ub) ==
    /\ pc = "sync"
    /\ si <= Len(stmts)
    /\ LET r == IF stmts[si].k = "nil" THEN R(St(ub), MkValue, NoErr)
                ELSE eval(stmts[si], 1, St(ub), MaxFuel)
       IN /\ Commit(r.st)
          /\ runEnq' = runEnq \cup r.st.enq
          /\ IF r.err = NoErr
             THEN si' = si + 1 /\ pc' = pc
             ELSE si' = si /\ pc' = AfterErr(r.err)
    /\ UNCHANGED <<clock, code, stmts, now, it, ranTask, runs, fired, inLoop,
                   last, src, pos>>

\* if (!taskQueue.empty()) { cout << "[Event Loop] ..." ...
SyncDone ==
    /\ pc = "sync"
    /\ si > Len(stmts)
    /\ IF taskQueue = <<>>
       THEN pc' = "ready" /\ out' = out /\ inLoop' = inLoop
       ELSE pc' = "loop" /\ out' = Append(out, Cout("event loop"))
            /\ inLoop' = TRUE
    /\ UNCHANGED <<frames, taskQueue, cap, clock, code, stmts, si, now, it,
                   ranTask, runs, fired, nextId, runEnq, last, src, pos>>

\* while (!taskQueue.empty()) { long long now = getCurrentTime(); ...
LoopHead ==
    /\ pc = "loop"
    /\ IF taskQueue = <<>>
       THEN pc' = "ready" /\ UNCHANGED <<now, ranTask, it>>
       ELSE pc' = "sweep" /\ now' = clock /\ ranTask' = FALSE /\ it' = 1
    /\ UNCHANGED <<frames, taskQueue, cap, out, clock, code, stmts, si, runs,
                   fired, nextId, runEnq, inLoop, last, src, pos>>

\* the guard of the sweep
IsReady(n, t) == n >= t.executeTime

\* taskQueue.erase(it) with a valid iterator
erase(q, i) == SubSeq(q, 1, i - 1) \o SubSeq(q, i + 1, Len(q))

\* taskQueue.erase(it) with an iterator into the buffer the vector has
\* freed: the elements are not moved and the last one is destroyed
eraseStale(q) == SubSeq(q, 1, Len(q) - 1)

\* one iteration of: for (auto it = taskQueue.begin(); it != taskQueue.end();)
SweepStep(ub) ==
    /\ pc = "sweep"
    /\ it <= Len(taskQueue)
    /\ LET t == taskQueue[it] IN
       IF IsReady(now, t)
       THEN LET scope == Len(frames) + 1
                st0 == [St(ub) EXCEPT
                          !.frames = Append(@, Environment(t.callback.closure))]
                r == eval(t.callback.body, scope, st0, MaxFuel)
            IN /\ fired' = [fired EXCEPT ![t.id] =
                              [count |-> @.count + 1, now |-> now, due |-> t.due]]
               /\ frames' = r.st.frames
               /\ cap' = r.st.cap
               /\ out' = r.st.out
               /\ nextId' = r.st.nextId
               /\ it' = it
               /\ IF r.err # NoErr
                  THEN \* the exception leaves the loop before erase
                       /\ taskQueue' = r.st.taskQueue
                       /\ pc' = AfterErr(r.err)
                       /\ ranTask' = ranTask
                  ELSE IF r.st.realloc
                  THEN \* it dangles: erase(it) and the rest of the sweep,
                       \* which reads Tasks from the freed buffer, are
                       \* undefined: the process is killed, or the sweep
                       \* ends in std::bad_function_call
                       IF ub = "abort"
                       THEN /\ taskQueue' = r.st.taskQueue
                            /\ pc' = "crashed"
                            /\ ranTask' = ranTask
                       ELSE /\ taskQueue' = eraseStale(r.st.taskQueue)
                            /\ pc' = "catch"
                            /\ ranTask' = TRUE
                  ELSE /\ taskQueue' = erase(r.st.taskQueue, it)
                       /\ pc' = pc
                       /\ ranTask' = TRUE
       ELSE /\ it' = it + 1
            /\ UNCHANGED <<frames, taskQueue, cap, out, nextId, pc, ranTask,
                           fired>>
    /\ UNCHANGED <<clock, code, stmts, si, now, runs, runEnq, inLoop,
                   last, src, pos>>

\* the end of the for loop: if (!ranTask && !taskQueue.empty()) sleep
SweepEnd ==
    /\ pc = "sweep"
    /\ it > Len(taskQueue)
    /\ pc' = IF ~ranTask /\ taskQueue # <<>> THEN "sleep" ELSE "loop"
    /\ UNCHANGED <<frames, taskQueue, cap, out, clock, code, stmts, si, now,
                   it, ranTask, runs, fired, nextId, runEnq, inLoop,
                   last, src, pos>>

\* this_thread::sleep_for(chrono::milliseconds(10)): one unit of the clock
Sleep ==
    /\ pc = "sleep"
    /\ clock' = clock + 1
    /\ pc' = "loop"
    /\ UNCHANGED <<frames, taskQueue, cap, out, code, stmts, si, now, it,
                   ranTask, runs, fired, nextId, runEnq, inLoop,
                   last, src, pos>>

\* a catch that rolls the run back: it drops the Tasks that are pending
CatchRollback ==
    /\ pc = "catch"
    /\ out' = Append(out, Cout("Runtime Error"))
    /\ pc' = "ready"
    /\ taskQueue' = <<>>
    /\ UNCHANGED <<frames, cap, clock, code, stmts, si, now, it, ranTask, runs,
                   fired, nextId, runEnq, inLoop, last, src, pos>>

\* catch (exception &e) { cout << "Runtime Error: " ... }
Catch ==
    /\ pc = "catch"
    /\ out' = Append(out, Cout("Runtime Error"))
    /\ pc' = "ready"
    /\ UNCHANGED <<frames, taskQueue, cap, clock, code, stmts, si, now, it,
                   ranTask, runs, fired, nextId, runEnq, inLoop,
                   last, src, pos>>

\* code = ""; cout << "\nReady." << endl;
Ready ==
    /\ pc = "ready"
    /\ code' = 0
    /\ out' = Append(out, Cout("Ready."))
    /\ pc' = "input"
    /\ UNCHANGED <<frames, taskQueue, cap, clock, stmts, si, now, it, ranTask,
                   runs, fired, nextId, runEnq, inLoop, last, src, pos>>

\* the steps main() takes by itself
Step ==
    \/ \E ub \in UBOutcomes : EvalStmt(ub)
    \/ SyncDone
    \/ LoopHead
    \/ \E ub \in UBOutcomes : SweepStep(ub)
    \/ SweepEnd
    \/ Sleep
    \/ Catch
    \/ Ready

Next ==
    \/ Tick
    \/ \E s \in DOMAIN Scripts : EnterCode(s)
    \/ Run
    \/ Exit
    \/ Step

Spec == Init /\ [][Next]_vars

(* main() keeps running: weak fairness of Step, written with the enabling  *)
(* condition of Step (main() is at one of its own steps, not waiting in    *)
(* getline and not ended) and with the effect every Step has (it changes   *)
(* pc, si, it or taskQueue, which no other action does from these places). *)
MainPcs == {"sync", "loop", "sweep", "sleep", "catch", "ready"}
MainMove ==
    /\ pc \in MainPcs
    /\ <<pc, si, it, taskQueue>>' # <<pc, si, it, taskQueue>>
MainFair == []<>(pc \notin MainPcs) \/ []<><<MainMove>>_vars

\* main() keeps running and the clock keeps advancing
FairSpec == Spec /\ WF_vars(Tick) /\ MainFair

---------------------------------------------------------------------------
(* The methods of Environment applied to a chain of frames: the frames are *)
(* created by make_shared<Environment>(p), the names and values are drawn  *)
(* from small sets.  last records the call and the heap before it.         *)
EnvNames == {"x", "y"}
\* the bindings define and assign are called with
EnvBindings == {<<"x", NumV(1)>>, <<"x", NumV(2)>>, <<"y", NumV(1)>>}
CannotAssign == "Cannot assign to undefined variable"

EnvInit ==
    /\ Init

NewEnv(p) ==
    /\ Len(frames) < MaxFrames
    /\ frames' = Append(frames, Environment(p))
    /\ last' = [NoLast EXCEPT !.op = "new", !.env = Len(frames) + 1,
                              !.before = frames]

DoDefine(e, name, val) ==
    /\ frames' = define(frames, e, name, val)
    /\ last' = [NoLast EXCEPT !.op = "define", !.env = e, !.name = name,
                              !.val = val, !.before = frames]

DoAssign(e, name, val) ==
    LET r == assign(frames, e, name, val)
    IN /\ frames' = r.fr
       /\ last' = [NoLast EXCEPT !.op = "assign", !.env = e, !.name = name,
                                 !.val = val, !.before = frames, !.ok = r.ok,
                                 !.err = IF r.ok THEN NoErr ELSE CannotAssign]

DoLookup(e, name) ==
    LET r == lookup(frames, e, name)
    IN /\ frames' = frames
       /\ last' = [NoLast EXCEPT !.op = "lookup", !.env = e, !.name = name,
                                 !.val = r.val, !.before = frames,
                                 !.ok = r.found,
                                 !.err = IF r.found THEN NoErr
                                         ELSE UndefinedVariable]

\* IdentifierNode::eval and the statement ID = expr, evaluated in frame e
DoEval(e, node, name) ==
    LET r == eval(node, e, St("continue"), MaxFuel)
    IN /\ frames' = r.st.frames
       /\ last' = [NoLast EXCEPT !.op = "eval", !.env = e, !.name = name,
                                 !.val = r.val, !.before = frames,
                                 !.ok = (r.err = NoErr), !.err = r.err]

EnvNext ==
    /\ \/ \E p \in DOMAIN frames : NewEnv(p)
       \/ \E e \in DOMAIN frames, b \in EnvBindings : DoDefine(e, b[1], b[2])
       \/ \E e \in DOMAIN frames, b \in EnvBindings : DoAssign(e, b[1], b[2])
       \/ \E e \in DOMAIN frames, n \in EnvNames : DoLookup(e, n)
       \/ \E e \in DOMAIN frames, n \in EnvNames :
              \/ DoEval(e, Id(n), n)
              \/ DoEval(e, Bin("=", Id(n), Num(1)), n)
    /\ UNCHANGED <<taskQueue, cap, out, clock, pc, code, stmts, si, now, it,
                   ranTask, runs, fired, nextId, runEnq, inLoop, src, pos>>

EnvSpec == EnvInit /\ [][EnvNext]_vars


---------------------------------------------------------------------------
(* One run of a program: "run" has parsed the text typed before it into    *)
(* stmts, and main() evaluates the statements, drains the event loop and   *)
(* reports.  The programs are given as Parser::parse returns them.         *)

\* var t = 1 < 2; var u = 2 < 1; var n = setTimeout(); var a = [1];
\* function f(){}
Prelude == <<Var("t", Bin("<", Num(1), Num(2))),
             Var("u", Bin("<", Num(2), Num(1))),
             Var("n", Call("setTimeout", <<>>)),
             Var("a", Array(<<Num(1)>>)),
             Func("f", <<>>, Block(<<>>))>>

\* operands of every kind of Value a program can build: 0, 1, "", "a", and
\* the variables of Prelude (true, false, null, a list, a function) and print
Operands == {Num(0), Num(1), Str(<<>>), Str(<<"a">>), Id("t"), Id("u"),
             Id("n"), Id("a"), Id("f"), Id("print")}

\* [var b = 7;] function h(a, b){ b } var r = h(<the first k of 1, 2, 3>);
ArgNodes == <<Num(1), Num(2), Num(3)>>
HParams == <<"a", "b">>
OuterB == {<<>>, <<Var("b", Num(7))>>}
ArgProgram(pre, k) ==
    pre \o <<Func("h", HParams, Block(<<Id("b")>>)),
             Var("r", Call("h", SubSeq(ArgNodes, 1, k)))>>
ArgPrograms == {ArgProgram(pre, k) : pre \in OuterB, k \in 0..Len(ArgNodes)}

\* <Prelude> var r = <l> <op> <r>;
BinProgram(op, l, r) == Prelude \o <<Var("r", Bin(op, l, r))>>
EqPrograms == {BinProgram("==", l, r) : l, r \in Operands}
AddPrograms == {BinProgram("+", l, r) : l, r \in Operands}

\* <Prelude> if (<c>) { print(1) }     <Prelude> while (<c>) { print(1) }
PrintOne == Block(<<Call("print", <<Num(1)>>)>>)
IfProgram(c) == Prelude \o <<If(c, PrintOne, NoNode)>>
WhileProgram(c) == Prelude \o <<While(c, PrintOne)>>
CondPrograms == {IfProgram(c) : c \in Operands}
                    \cup {WhileProgram(c) : c \in Operands}

\* var x = 1; function f(){ print(1) } setTimeout(f, 0); <bad>; var y = 2;
\* print(3);
\* with <bad> one of: nope    x()    var w = 1 + nope    setTimeout(f, nope)
BadStmts == {Id("nope"), Call("x", <<>>),
             Var("w", Bin("+", Num(1), Id("nope"))),
             Call("setTimeout", <<Id("f"), Id("nope")>>)}
ErrProgram(bad) ==
    <<Var("x", Num(1)), DeclF, Call("setTimeout", <<Id("f"), Num(0)>>), bad,
      Var("y", Num(2)), Call("print", <<Num(3)>>)>>
ErrPrograms == {ErrProgram(bad) : bad \in BadStmts}

\* <Prelude> var r = setTimeout(<x>, <d>);
Delays == {Num(0), Num(1), Num(HugeDelay)}
TimerProgram(x, d) == Prelude \o <<Var("r", Call("setTimeout", <<x, d>>))>>
TimerPrograms == {TimerProgram(x, d) : x \in Operands, d \in Delays}

\* function sum(n){ if (n) { n + sum(n - 1) } else { 0 } }
SumBody ==
    Block(<<If(Id("n"),
               Block(<<Bin("+", Id("n"),
                       Call("sum", <<Bin("-", Id("n"), Num(1))>>))>>),
               Block(<<Num(0)>>))>>)
DeclSum == Func("sum", <<"n">>, SumBody)
\* <DeclSum> var r = sum(2);
RecTop == <<DeclSum, Var("r", Call("sum", <<Num(2)>>))>>
\* function outer(){ <DeclSum> sum(2) } var r = outer();
RecNested == <<Func("outer", <<>>, Block(<<DeclSum, Call("sum", <<Num(2)>>)>>)),
               Var("r", Call("outer", <<>>))>>
RecPrograms == {RecTop, RecNested}

\* if (1) { var v = 5 } var r = v;
IfBlock == <<If(Num(1), Block(<<Var("v", Num(5))>>), NoNode),
             Var("r", Id("v"))>>
\* if (0) { var v = 1 } else { var v = 5 } var r = v;
ElseBlock == <<If(Num(0), Block(<<Var("v", Num(1))>>),
                  Block(<<Var("v", Num(5))>>)),
               Var("r", Id("v"))>>
\* var i = 1; while (i) { var v = 5 var i = 0 } var r = v;
WhileBlock == <<Var("i", Num(1)),
                While(Id("i"), Block(<<Var("v", Num(5)), Var("i", Num(0))>>)),
                Var("r", Id("v"))>>
BlockPrograms == {IfBlock, ElseBlock, WhileBlock}

Programs == ArgPrograms \cup EqPrograms \cup AddPrograms \cup CondPrograms
                \cup ErrPrograms \cup TimerPrograms \cup RecPrograms
                \cup BlockPrograms

EvalInit ==
    /\ frames = <<GlobalEnv>>
    /\ taskQueue = <<>>
    /\ cap = 0
    /\ out = <<>>
    /\ clock = 1
    /\ pc = "sync"
    /\ code = 0
    /\ stmts \in Programs
    /\ si = 1
    /\ now = 0
    /\ it = 1
    /\ ranTask = FALSE
    /\ runs = 1
    /\ fired = [i \in 1..MaxTasks |-> [count |-> 0, now |-> 0, due |-> 0]]
    /\ nextId = 1
    /\ runEnq = {}
    /\ inLoop = FALSE
    /\ last = NoLast
    /\ src = <<>>
    /\ pos = 0

EvalSpec == EvalInit /\ [][Step]_vars

---------------------------------------------------------------------------
(* class Parser: src is a sequence of characters, pos counts from 0.  The  *)
(* parse functions return [node, pos, err]: the node (NoNode is nullptr),  *)
(* pos when the function returns, and err, which is "none" when it         *)
(* returns.  A loop whose iteration leaves pos where it was repeats that   *)
(* iteration for ever, appending one more element to its vector each time  *)
(* (its condition and its body read only src and pos): err is NoProgress.  *)
NUL == ""
Letters ==
    {"a", "b", "c", "d", "e", "f", "g", "h", "i", "j", "k", "l", "m", "n",
     "o", "p", "q", "r", "s", "t", "u", "v", "w", "x", "y", "z",
     "A", "B", "C", "D", "E", "F", "G", "H", "I", "J", "K", "L", "M", "N",
     "O", "P", "Q", "R", "S", "T", "U", "V", "W", "X", "Y", "Z"}
DigitChars == {"0", "1", "2", "3", "4", "5", "6", "7", "8", "9"}
isalpha(c) == c \in Letters
isdigit(c) == c \in DigitChars
isalnum(c) == isalpha(c) \/ isdigit(c)
isspace(c) == c \in {" ", "\t", "\n", "\r"}

NoProgress == "no progress"
\* a read past the end of src that does not stop (an unterminated string)
OutOfRange == "out of range"

P(node, p, err) == [node |-> node, pos |-> p, err |-> err]

peek(s, p, offset) == IF p + offset >= Len(s) THEN NUL ELSE s[p + offset + 1]

RECURSIVE skipWhitespace(_, _)
skipWhitespace(s, p) ==
    IF p < Len(s) /\ isspace(s[p + 1]) THEN skipWhitespace(s, p + 1) ELSE p

\* pos after  while (<peek() is in C>) s += advance();
RECURSIVE Scan(_, _, _)
Scan(s, p, C) == IF peek(s, p, 0) \in C THEN Scan(s, p + 1, C) ELSE p

\* pos after  while (peek() != '"') s += advance();  (Len(s) + 1: no quote)
RECURSIVE ScanQuote(_, _)
ScanQuote(s, p) ==
    IF p >= Len(s) THEN Len(s) + 1
    ELSE IF s[p + 1] = "\"" THEN p ELSE ScanQuote(s, p + 1)

\* the characters of src from position p up to position q, q excluded
Chars(s, p, q) == SubSeq(s, p + 1, q)

\* a std::string as a string of the model
RECURSIVE Join(_)
Join(cs) == IF cs = <<>> THEN "" ELSE cs[1] \o Join(Tail(cs))

\* Parser::parseToken: [tok, pos, err]
parseToken(s, p0) ==
    LET p == skipWhitespace(s, p0)
        c == peek(s, p, 0)
        T(tok, q) == [tok |-> tok, pos |-> q, err |-> NoErr]
    IN IF p >= Len(s) THEN T(<<>>, p)
       ELSE IF isalpha(c)
       THEN LET q == Scan(s, p, Letters \cup DigitChars)
            IN T(Chars(s, p, q), q)
       ELSE IF isdigit(c)
       THEN LET q == Scan(s, p, DigitChars \cup {"."})
            IN T(Chars(s, p, q), q)
       ELSE IF c = "\""
       THEN LET q == ScanQuote(s, p + 1)
            IN IF q > Len(s)
               THEN [tok |-> <<>>, pos |-> q, err |-> OutOfRange]
               ELSE T(<<"\"">> \o Chars(s, p + 1, q) \o <<"\"">>, q + 1)
       ELSE IF c \in {"=", "!", "<", ">"} /\ peek(s, p + 1, 0) = "="
       THEN T(<<c, "=">>, p + 2)
       ELSE T(<<c>>, p + 1)

\* stod of a token of digits (the fraction of a literal is not modelled:
\* the numbers of the model are integers)
stod(tok) ==
    LET IndexOf(d) == CHOOSE i \in 0..9 : DigitChar(i) = d
        RECURSIVE Value(_, _)
        Value(i, acc) ==
            IF i > Len(tok) \/ ~isdigit(tok[i]) THEN acc
            ELSE Value(i + 1, 10 * acc + IndexOf(tok[i]))
    IN Value(1, 0)

\* v bound to a name in F: the call is made once and its result is used
\* as often as F needs it
Let(v, F(_)) == CHOOSE y \in {F(x) : x \in {v}} : TRUE

RECURSIVE parsePrimary(_, _), parseMultiplicative(_, _), parseAdditive(_, _),
          parseComparison(_, _), parseList(_, _, _, _),
          parseBlock(_, _), parseStatement(_, _)

\* Parser::parseExpression
parseExpression(s, p) == parseComparison(s, p)

\* the loops of parsePrimary over the elements of an array and over the
\* arguments of a call:  while (peek() != close) { push_back(
\* parseExpression()); skipWhitespace(); if (peek() == ',') advance(); }
\* advance();   node is the vector
parseList(s, p, close, acc) ==
    IF peek(s, p, 0) = close THEN P(acc, p + 1, NoErr)
    ELSE Let(parseExpression(s, p), LAMBDA e :
         LET q == skipWhitespace(s, e.pos)
             n == IF peek(s, q, 0) = "," THEN q + 1 ELSE q
         IN IF e.err # NoErr THEN e
            ELSE IF n = p THEN P(Append(acc, e.node), p, NoProgress)
            ELSE parseList(s, n, close, Append(acc, e.node)))

\* Parser::parsePrimary
parsePrimary(s, p0) ==
    LET p == skipWhitespace(s, p0)
        c == peek(s, p, 0)
    IN Let(parseToken(s, p), LAMBDA t :
       IF isdigit(c) THEN P(Num(stod(t.tok)), t.pos, NoErr)
       ELSE IF c = "\""
       THEN (IF t.err # NoErr THEN P(NoNode, t.pos, t.err)
             ELSE P(Str(SubSeq(t.tok, 2, Len(t.tok) - 1)), t.pos, NoErr))
       ELSE IF c = "["
       THEN Let(parseList(s, p + 1, "]", <<>>), LAMBDA l :
                IF l.err # NoErr THEN l ELSE P(Array(l.node), l.pos, NoErr))
       ELSE IF isalpha(c)
       THEN LET q == skipWhitespace(s, t.pos)
            IN IF peek(s, q, 0) = "("
               THEN Let(parseList(s, q + 1, ")", <<>>), LAMBDA l :
                        IF l.err # NoErr THEN l
                        ELSE P(Call(Join(t.tok), l.node), l.pos, NoErr))
               ELSE P(Id(Join(t.tok)), q, NoErr)
       ELSE P(NoNode, p, NoErr))

\* Parser::parseMultiplicative
parseMultiplicative(s, p0) ==
    LET RECURSIVE Loop(_)
        Loop(left) ==
            LET p == skipWhitespace(s, left.pos)
                c == peek(s, p, 0)
            IN IF left.err # NoErr THEN left
               ELSE IF c # "*" /\ c # "/" THEN P(left.node, p, NoErr)
               ELSE Let(parsePrimary(s, p + 1), LAMBDA right :
                        IF right.err # NoErr THEN right
                        ELSE Loop(P(Bin(c, left.node, right.node), right.pos,
                                    NoErr)))
    IN Let(parsePrimary(s, p0), LAMBDA left : Loop(left))

\* Parser::parseAdditive
parseAdditive(s, p0) ==
    LET RECURSIVE Loop(_)
        Loop(left) ==
            LET p == skipWhitespace(s, left.pos)
                c == peek(s, p, 0)
            IN IF left.err # NoErr THEN left
               ELSE IF c # "+" /\ c # "-" THEN P(left.node, p, NoErr)
               ELSE Let(parseMultiplicative(s, p + 1), LAMBDA right :
                        IF right.err # NoErr THEN right
                        ELSE Loop(P(Bin(c, left.node, right.node), right.pos,
                                    NoErr)))
    IN Let(parseMultiplicative(s, p0), LAMBDA left : Loop(left))

\* Parser::parseComparison
parseComparison(s, p0) ==
    Let(parseAdditive(s, p0), LAMBDA left :
        LET p == skipWhitespace(s, left.pos)
            c == peek(s, p, 0)
            op == parseToken(s, p)
        IN IF left.err # NoErr THEN left
           ELSE IF c = ">" \/ c = "<" \/ c = "="
           THEN Let(parseAdditive(s, op.pos), LAMBDA right :
                    IF right.err # NoErr THEN right
                    ELSE P(Bin(Join(op.tok), left.node, right.node),
                           right.pos, NoErr))
           ELSE P(left.node, p, NoErr))

\* Parser::parseBlock
parseBlock(s, p0) ==
    LET RECURSIVE Loop(_, _)
        Loop(p, acc) ==
            IF peek(s, p, 0) # "}" /\ p < Len(s)
            THEN Let(parseStatement(s, p), LAMBDA st :
                     LET q == skipWhitespace(s, st.pos)
                     IN IF st.err # NoErr THEN st
                        ELSE IF q = p
                        THEN P(Block(Append(acc, st.node)), p, NoProgress)
                        ELSE Loop(q, Append(acc, st.node)))
            ELSE P(Block(acc), p + 1, NoErr)
    IN Loop(p0 + 1, <<>>)

\* Parser::parseStatement: the branch of var
parseVar(s, q) ==
    Let(parseToken(s, skipWhitespace(s, q)), LAMBDA name :
    Let(parseExpression(s, skipWhitespace(s, name.pos) + 1), LAMBDA val :
        LET p == skipWhitespace(s, val.pos)
        IN IF val.err # NoErr THEN val
           ELSE P(Var(Join(name.tok), val.node),
                  IF peek(s, p, 0) = ";" THEN p + 1 ELSE p, NoErr)))

\* Parser::parseStatement: the branch of if
parseIf(s, q) ==
    Let(parseExpression(s, skipWhitespace(s, q) + 1), LAMBDA cond :
    IF cond.err # NoErr THEN cond
    ELSE Let(parseBlock(s, skipWhitespace(s, cond.pos + 1)), LAMBDA thenB :
    LET p == skipWhitespace(s, thenB.pos)
        p2 == Scan(s, p, Letters)
    IN IF thenB.err # NoErr THEN thenB
       ELSE IF Join(Chars(s, p, p2)) = "else"
       THEN Let(parseBlock(s, skipWhitespace(s, p2)), LAMBDA elseB :
                IF elseB.err # NoErr THEN elseB
                ELSE P(If(cond.node, thenB.node, elseB.node), elseB.pos,
                       NoErr))
       ELSE P(If(cond.node, thenB.node, NoNode), p, NoErr)))

\* Parser::parseStatement: the branch of while
parseWhile(s, q) ==
    Let(parseExpression(s, skipWhitespace(s, q) + 1), LAMBDA cond :
    IF cond.err # NoErr THEN cond
    ELSE Let(parseBlock(s, skipWhitespace(s, cond.pos + 1)), LAMBDA body :
             IF body.err # NoErr THEN body
             ELSE P(While(cond.node, body.node), body.pos, NoErr)))

\* Parser::parseStatement: the branch of function
parseFunction(s, q) ==
    LET RECURSIVE Params(_, _)
        Params(p, acc) ==
            IF peek(s, p, 0) = ")" THEN P(acc, p + 1, NoErr)
            ELSE LET a == skipWhitespace(s, p)
                     b == Scan(s, a, Letters \cup DigitChars)
                     c == skipWhitespace(s, b)
                     n == IF peek(s, c, 0) = "," THEN c + 1 ELSE c
                     ps == Append(acc, Join(Chars(s, a, b)))
                 IN IF n = p THEN P(ps, p, NoProgress) ELSE Params(n, ps)
    IN Let(parseToken(s, skipWhitespace(s, q)), LAMBDA name :
       Let(Params(name.pos + 1, <<>>), LAMBDA params :
       IF params.err # NoErr THEN P(NoNode, params.pos, params.err)
       ELSE Let(parseBlock(s, skipWhitespace(s, params.pos)), LAMBDA body :
                IF body.err # NoErr THEN body
                ELSE P(Func(Join(name.tok), params.node, body.node),
                       body.pos, NoErr))))

parseStatement(s, p0) ==
    LET checkpoint == skipWhitespace(s, p0)
        q == Scan(s, checkpoint, Letters)
        tokenStr == Join(Chars(s, checkpoint, q))
    IN CASE tokenStr = "var" -> parseVar(s, q)
         [] tokenStr = "if" -> parseIf(s, q)
         [] tokenStr = "while" -> parseWhile(s, q)
         [] tokenStr = "function" -> parseFunction(s, q)
         [] OTHER -> parseExpression(s, checkpoint)

(* Source texts that conform to the grammar  stmt := 'var' ID '=' expr ';' *)
(* | ID '=' expr ';' | 'if' '(' expr ')' block ['else' block] | 'while'    *)
(* '(' expr ')' block | 'function' ID '(' params ')' block | expr ';'      *)
(* with block := '{' stmt* '}' and primary including '(' expr ')'.         *)
\* print(1);
SrcPrint ==
    <<"p", "r", "i", "n", "t", "(", "1", ")", ";">>
\* var x = 10;
SrcVar ==
    <<"v", "a", "r", " ", "x", " ", "=", " ", "1", "0", ";">>
\* x = x + 1;
SrcAssign ==
    <<"x", " ", "=", " ", "x", " ", "+", " ", "1", ";">>
\* "a" + 1 == "a1";
SrcCompare ==
    <<"\"", "a", "\"", " ", "+", " ", "1", " ", "=", "=", " ", "\"", "a", "1",
      "\"", ";">>
\* [1, 2];
SrcArray ==
    <<"[", "1", ",", " ", "2", "]", ";">>
\* setTimeout(f, 0);
SrcTimeout ==
    <<"s", "e", "t", "T", "i", "m", "e", "o", "u", "t", "(", "f", ",", " ",
      "0", ")", ";">>
\* if (x) { var y = 1; } else { var y = 2; }
SrcIfElse ==
    <<"i", "f", " ", "(", "x", ")", " ", "{", " ", "v", "a", "r", " ", "y",
      " ", "=", " ", "1", ";", " ", "}", " ", "e", "l", "s", "e", " ", "{",
      " ", "v", "a", "r", " ", "y", " ", "=", " ", "2", ";", " ", "}">>
\* while (x) { var x = 0; }
SrcWhile ==
    <<"w", "h", "i", "l", "e", " ", "(", "x", ")", " ", "{", " ", "v", "a",
      "r", " ", "x", " ", "=", " ", "0", ";", " ", "}">>
\* function g(a, b){ var s = a * b; }
SrcFuncVar ==
    <<"f", "u", "n", "c", "t", "i", "o", "n", " ", "g", "(", "a", ",", " ",
      "b", ")", "{", " ", "v", "a", "r", " ", "s", " ", "=", " ", "a", " ",
      "*", " ", "b", ";", " ", "}">>
\* function e(){}
SrcFuncEmpty ==
    <<"f", "u", "n", "c", "t", "i", "o", "n", " ", "e", "(", ")", "{", "}">>
\* function f(){ print(1); }
SrcFuncPrint ==
    <<"f", "u", "n", "c", "t", "i", "o", "n", " ", "f", "(", ")", "{", " ",
      "p", "r", "i", "n", "t", "(", "1", ")", ";", " ", "}">>
\* function add(n){ x = x + n; }
SrcFuncAdd ==
    <<"f", "u", "n", "c", "t", "i", "o", "n", " ", "a", "d", "d", "(", "n",
      ")", "{", " ", "x", " ", "=", " ", "x", " ", "+", " ", "n", ";", " ",
      "}">>
\* (1 + 2) * 3;
SrcParen ==
    <<"(", "1", " ", "+", " ", "2", ")", " ", "*", " ", "3", ";">>

StmtTexts ==
    {SrcPrint, SrcVar, SrcAssign, SrcCompare,
     SrcArray, SrcTimeout, SrcIfElse, SrcWhile,
     SrcFuncVar, SrcFuncEmpty, SrcFuncPrint, SrcFuncAdd,
     SrcParen}

\* the code typed before "run": one statement, or two on one line
Sources == StmtTexts \cup {a \o <<" ">> \o b : a, b \in StmtTexts}

\* Parser parser(code);
ParseInit ==
    /\ frames = <<GlobalEnv>>
    /\ taskQueue = <<>>
    /\ cap = 0
    /\ out = <<>>
    /\ clock = 1
    /\ pc = "parse"
    /\ code = 0
    /\ stmts = <<>>
    /\ si = 1
    /\ now = 0
    /\ it = 1
    /\ ranTask = FALSE
    /\ runs = 1
    /\ fired = [i \in 1..MaxTasks |-> [count |-> 0, now |-> 0, due |-> 0]]
    /\ nextId = 1
    /\ runEnq = {}
    /\ inLoop = FALSE
    /\ last = NoLast
    /\ src \in Sources
    /\ pos = 0

\* Parser::parse: one iteration of  while (pos < src.size())
ParseStmt ==
    /\ pc = "parse"
    /\ pos < Len(src)
    /\ \E st \in {parseStatement(src, skipWhitespace(src, pos))} :
       LET a == skipWhitespace(src, pos)
           b == skipWhitespace(src, st.pos)
           c == IF peek(src, b, 0) = ";" THEN b + 1 ELSE b
       IN IF a >= Len(src)
          THEN pos' = a /\ stmts' = stmts /\ pc' = "parsed"
          ELSE IF st.err # NoErr
          THEN /\ pos' = st.pos
               /\ stmts' = stmts
               /\ pc' = IF st.err = NoProgress THEN "hung" ELSE "crashed"
          ELSE /\ pos' = c
               /\ stmts' = Append(stmts, st.node)
               /\ pc' = IF c = pos THEN "hung" ELSE pc
    /\ UNCHANGED <<frames, taskQueue, cap, out, clock, code, si, now, it,
                   ranTask, runs, fired, nextId, runEnq, inLoop, last, src>>

\* Parser::parse: return stmts
ParseEnd ==
    /\ pc = "parse"
    /\ pos >= Len(src)
    /\ pc' = "parsed"
    /\ UNCHANGED <<frames, taskQueue, cap, out, clock, code, stmts, si, now,
                   it, ranTask, runs, fired, nextId, runEnq, inLoop, last,
                   src, pos>>

ParseNext == ParseStmt \/ ParseEnd

ParseSpec == ParseInit /\ [][ParseNext]_vars

---------------------------------------------------------------------------
(* Claims about the event loop *)
TaskIds == 1..MaxTasks
Created == 1..(nextId - 1)
Pending(id) == \E i \in DOMAIN taskQueue : taskQueue[i].id = id
Started(id) == fired[id].count >= 1

\* C1: a function scheduled with setTimeout by the synchronous phase of a
\* run is not started while the top-level statements of that run are being
\* evaluated, and has been started when the run reports "Ready."
C1_Claim ==
    \A id \in runEnq :
        /\ pc = "sync" => ~Started(id)
        /\ pc = "ready" => Started(id)

\* C2: no Task's callback is started a second time, and a Task whose
\* callback has been executed is no longer in the pending set
C2_Claim ==
    \A id \in TaskIds :
        /\ fired[id].count <= 1
        /\ Started(id) => ~Pending(id)

\* C3: once enqueued, a Task always eventually fires: whenever some Task
\* that was enqueued has not been started, all of them eventually have been
\* (unless the user ended the process with "exit", or the process was
\* killed or hangs in a callback that does not return)
Unfired == {id \in Created : ~Started(id)}
C3_Claim ==
    (Unfired # {}) ~> (Unfired = {} \/ pc \in {"exited", "crashed", "hung"})

\* C4: whenever a Task's callback is started, the clock reading of the sweep
\* is at least the Task's due time, the clock at the setTimeout call plus
\* the delay
C4_Claim ==
    \A id \in TaskIds : Started(id) => fired[id].now >= fired[id].due

\* C5: the event loop never exits while a Task is pending, and every Task
\* enqueued so far has been executed when it exits
C5_Claim ==
    (inLoop /\ pc \in {"catch", "ready"}) =>
        /\ taskQueue = <<>>
        /\ \A id \in Created : Started(id)

---------------------------------------------------------------------------
(* Claims about the evaluator *)
Global(name) == lookup(frames, 1, name)

\* C6: after var x = 10; function add(n){ x = x + n } add(5); the global x
\* is the Number 15, and print(x) prints 15
C6_Claim ==
    (pc = "sync" /\ CodeName = "AddScript") =>
        /\ si > 3 => Global("x") = [found |-> TRUE, val |-> NumV(15)]
        /\ si > 4 => out[Len(out)].text = <<"1", "5", " ">>

\* C7: a free variable of a function body resolves in the chain of the frame
\* the function was declared in, not in the frame of the call: getx(),
\* declared at top level and called from caller() that declares its own x,
\* yields the global x
C7_Lexical ==
    (pc = "sync" /\ CodeName = "ScopeScript" /\ si > 4) =>
        Global("r") = [found |-> TRUE, val |-> NumV(1)]

\* getx() has been called from the frame of caller(), which defines x = 2
C7_Witness ==
    /\ pc = "sync" /\ CodeName = "ScopeScript" /\ si > 4
    /\ \E f \in DOMAIN frames :
          /\ frames[f].site # 0
          /\ frames[f].site # frames[f].parent
          /\ "x" \in DOMAIN frames[frames[f].site].vars
          /\ frames[frames[f].site].vars["x"] = NumV(2)


---------------------------------------------------------------------------
(* Claims about Environment (EnvSpec) *)
Before == last.before

\* the innermost frame of the chain of e that defines name (0: none)
RECURSIVE Owner(_, _, _)
Owner(fr, e, name) ==
    IF e = 0 THEN 0
    ELSE IF name \in DOMAIN fr[e].vars THEN e
    ELSE Owner(fr, fr[e].parent, name)

\* frame g is as it was before the last call, but for the binding of name
SameBut(g, name) ==
    /\ frames[g].parent = Before[g].parent
    /\ DOMAIN frames[g].vars \ {name} = DOMAIN Before[g].vars \ {name}
    /\ \A m \in DOMAIN Before[g].vars \ {name} :
          frames[g].vars[m] = Before[g].vars[m]

\* C8: define(name, value) binds name in the frame it is called on and
\* changes no other frame; a lookup of name from that frame then yields value
C8_Define ==
    last.op = "define" =>
        /\ DOMAIN frames = DOMAIN Before
        /\ \A g \in DOMAIN Before : g # last.env => frames[g] = Before[g]
        /\ SameBut(last.env, last.name)
        /\ last.name \in DOMAIN frames[last.env].vars
        /\ lookup(frames, last.env, last.name) =
              [found |-> TRUE, val |-> last.val]

\* define was called on a frame with an ancestor that binds the name to
\* another value
C8_Witness ==
    /\ last.op = "define"
    /\ Before[last.env].parent # 0
    /\ LET a == lookup(Before, Before[last.env].parent, last.name)
       IN a.found /\ a.val # last.val

\* C9: a successful assign(name, value) changes the binding of name in the
\* innermost frame of the chain that defines name and nothing else, adds no
\* name to any frame, and a lookup of name from the same frame yields value
C9_Assign ==
    (last.op = "assign" /\ last.ok) =>
        LET o == Owner(Before, last.env, last.name)
        IN /\ o # 0
           /\ DOMAIN frames = DOMAIN Before
           /\ \A g \in DOMAIN Before : g # o => frames[g] = Before[g]
           /\ SameBut(o, last.name)
           /\ \A g \in DOMAIN Before :
                 DOMAIN frames[g].vars = DOMAIN Before[g].vars
           /\ frames[o].vars[last.name] = last.val
           /\ lookup(frames, last.env, last.name) =
                 [found |-> TRUE, val |-> last.val]

\* assign reached an ancestor frame and changed the value bound there
C9_Witness ==
    /\ last.op = "assign" /\ last.ok
    /\ Owner(Before, last.env, last.name) # last.env
    /\ frames # Before

\* C10: for a name no frame of the chain defines, lookup, the evaluation of
\* the identifier, assign and the statement ID = expr fail with a NameError
\* and leave every frame unchanged
C10_NameError ==
    (last.op \in {"lookup", "assign", "eval"}
        /\ Owner(Before, last.env, last.name) = 0) =>
        /\ ~last.ok
        /\ last.err = IF last.op = "assign" THEN CannotAssign
                      ELSE UndefinedVariable
        /\ frames = Before

\* assign failed in a chain of two frames that bind another name
C10_Witness ==
    /\ last.op = "assign" /\ ~last.ok
    /\ last.env # 1
    /\ \E m \in EnvNames : Owner(Before, last.env, m) # 0

---------------------------------------------------------------------------
(* Claims about one run of a program (EvalSpec) *)
Min(a, b) == IF a < b THEN a ELSE b
Done == si > Len(stmts)

\* C11: the call h(<k arguments>) of function h(a, b){ b } binds in the new
\* frame the i-th parameter to the i-th argument and nothing else; with two
\* or more arguments it yields the second one, and with fewer the lookup of
\* b in the body fails with a NameError
C11_Claim ==
    \A pre \in OuterB, k \in 0..Len(ArgNodes) :
        (stmts = ArgProgram(pre, k) /\ Len(frames) > 1) =>
            /\ DOMAIN frames[2].vars = {HParams[i] : i \in 1..Min(k, 2)}
            /\ \A i \in 1..Min(k, 2) : frames[2].vars[HParams[i]] = NumV(i)
            /\ k >= 2 => (Done /\ Global("r") = [found |-> TRUE, val |-> NumV(2)])
            /\ k < 2 => (~Done /\ pc # "sync" /\ ~Global("r").found)

\* the Value an operand evaluates to in the global frame
ValueOf(o) == eval(o, 1, St("continue"), MaxFuel).val

BothNum(l, r) == l.type = "V_NUM" /\ r.type = "V_NUM"
BothStr(l, r) == l.type = "V_STR" /\ r.type = "V_STR"

\* C12: l == r is the Boolean true when l and r are both Numbers of equal
\* value or both Strings of equal text, and the Boolean false for every
\* other pair of operands
C12_Claim ==
    \A l, r \in Operands :
        (stmts = BinProgram("==", l, r) /\ Done) =>
            LET lv == ValueOf(l)
                rv == ValueOf(r)
            IN Global("r") =
                 [found |-> TRUE,
                  val |-> BoolV(\/ BothNum(lv, rv) /\ lv.numVal = rv.numVal
                                \/ BothStr(lv, rv) /\ lv.strVal = rv.strVal)]

\* the rule of the claim: Boolean true and the nonzero Numbers are truthy
TruthyValue(v) ==
    (v.type = "V_BOOL" /\ v.boolVal) \/ (v.type = "V_NUM" /\ v.numVal # 0)

\* the body { print(1) } was evaluated
BodyRan == \E i \in DOMAIN out : out[i].kind = "print"

\* the statement after Prelude has been evaluated, or does not return
AfterCond == Done \/ pc = "hung"

\* C13: if (c) { print(1) } and while (c) { print(1) } evaluate the body
\* exactly when c is the Boolean true or a nonzero Number; for a condition
\* of any other kind While runs its body zero times, as If does
C13_Claim ==
    \A c \in Operands :
        /\ (stmts = IfProgram(c) /\ AfterCond) =>
              (BodyRan <=> TruthyValue(ValueOf(c)))
        /\ (stmts = WhileProgram(c) /\ AfterCond) =>
              (BodyRan <=> TruthyValue(ValueOf(c)))

\* the text rendering of the claim: an integer-valued Number is rendered as
\* its plain digits, the other kinds as Value::toString renders them
Rendering(v) ==
    IF v.type = "V_NUM"
    THEN (IF v.numVal < 0 THEN <<"-">> \o Digits(-v.numVal)
          ELSE Digits(v.numVal))
    ELSE toString(v)

\* C14: l + r is the String of the two renderings concatenated when l or r
\* is a String, and the Number l + r otherwise: "a" + 1 is the String "a1"
\* and 0 + 1 the Number 1
C14_Claim ==
    \A l, r \in Operands :
        (stmts = BinProgram("+", l, r) /\ Done) =>
            LET lv == ValueOf(l)
                rv == ValueOf(r)
            IN Global("r") =
                 [found |-> TRUE,
                  val |-> IF lv.type = "V_STR" \/ rv.type = "V_STR"
                          THEN StrV(Rendering(lv) \o Rendering(rv))
                          ELSE NumV(lv.numVal + rv.numVal)]

\* a top-level statement of the batch raised an error
SyncFailed == ~Done /\ pc \notin {"sync", "crashed", "hung"}

Reported == \E i \in DOMAIN out : out[i] = Cout("Runtime Error")
Printed(text) == \E i \in DOMAIN out : out[i] = [kind |-> "print", text |-> text]

\* C15: when a top-level statement raises an error, main() reports it and
\* goes back to reading input with si still at the failing statement; in
\* the program  var x = 1; function f(){ print(1) } setTimeout(f, 0); <bad>;
\* var y = 2; print(3);  the statements after <bad> are not evaluated (y is
\* not defined, 3 is not printed) and the effects of the statements before
\* it are still there (x is 1, f is defined, the Task is pending)
C15_ErrorKeeps ==
    /\ SyncFailed =>
          /\ pc \in {"catch", "ready", "input"}
          /\ ~inLoop
          /\ pc # "catch" => Reported
    /\ (stmts \in ErrPrograms /\ (si > 4 \/ pc # "sync")) =>
          /\ SyncFailed
          /\ si = 4
          /\ ~Global("y").found
          /\ ~Printed(toString(NumV(3)) \o <<" ">>)
          /\ Global("x") = [found |-> TRUE, val |-> NumV(1)]
          /\ Global("f").found
          /\ Len(taskQueue) = 1 /\ Pending(1) /\ ~Started(1)

\* the run of such a program has ended after the error was reported
C15_Witness ==
    /\ stmts \in ErrPrograms
    /\ SyncFailed
    /\ pc = "input"
    /\ Reported
    /\ taskQueue # <<>>

\* the frames when the statements of Prelude have been evaluated
AfterPrelude ==
    evalBlock(Prelude, 1, 1, [St("continue") EXCEPT !.frames = <<GlobalEnv>>],
              MkValue, MaxFuel).st.frames

SumFrames ==
    {g \in DOMAIN frames : frames[g].site # 0 /\ "n" \in DOMAIN frames[g].vars}

\* C17: function sum(n){ ... sum(n - 1) ... } declared in frame E (the
\* global frame, or the frame of a call of outer) binds sum in E to the
\* Function whose closure is E; from the frame of every call of sum, a child
\* of E, the lookup of sum yields that Function, and the recursion returns:
\* sum(2) is 3
C17_Recursion ==
    stmts \in RecPrograms =>
        /\ (stmts = RecTop /\ si > 1) =>
              Global("sum") = [found |-> TRUE, val |-> FuncV(<<"n">>, SumBody, 1)]
        /\ \A g \in SumFrames :
              LET E == frames[g].parent
              IN /\ E # 0
                 /\ "sum" \in DOMAIN frames[E].vars
                 /\ frames[E].vars["sum"] = FuncV(<<"n">>, SumBody, E)
                 /\ lookup(frames, g, "sum") =
                       [found |-> TRUE, val |-> frames[E].vars["sum"]]
        /\ pc \notin {"catch", "hung", "crashed"}
        /\ Done => Global("r") = [found |-> TRUE, val |-> NumV(3)]

\* sum, declared in the frame of a call of outer, has called itself down to
\* sum(0) from frames that are children of that frame
C17_Witness ==
    /\ stmts = RecNested
    /\ Done
    /\ Cardinality(SumFrames) = 3
    /\ \A g \in SumFrames : frames[g].parent = 2 /\ frames[2].site = 1
    /\ \E g \in SumFrames : frames[g].site \in SumFrames

\* C19: the body of an If or a While is evaluated in the frame of the
\* statement: the programs with var v = 5 inside the body of a top-level
\* if / else / while create no frame, v is defined in the global frame and
\* var r = v after the statement finds it; before the event loop runs a
\* callback, every frame but the global one was created by a call
C19_NoBlockFrame ==
    /\ stmts \in BlockPrograms =>
          /\ Len(frames) = 1
          /\ pc \notin {"catch", "hung", "crashed"}
          /\ Done => /\ "v" \in DOMAIN frames[1].vars
                     /\ Global("r") = [found |-> TRUE, val |-> NumV(5)]
    /\ ~inLoop => \A g \in DOMAIN frames : g # 1 => frames[g].site # 0

\* the while program has ended: its body ran once, in the global frame
C19_Witness ==
    /\ stmts = WhileBlock
    /\ Done
    /\ Global("i") = [found |-> TRUE, val |-> NumV(0)]
    /\ Global("r").found

---------------------------------------------------------------------------
(* Claims about the Parser (ParseSpec) *)

\* C18: Parser::parse returns for every source text that conforms to the
\* grammar: no iteration of the statement loops of parse() and parseBlock()
\* (and of the loops they call) leaves pos where it was
C18_Claim == pc # "hung"

=============================================================================
